---- MODULE Spec2Model ----
(***************************************************************************)
(* Model of the Qodana CI shims: scan/src/utils.ts (GitHub Actions) and    *)
(* the Azure Pipelines utils (src/unnamed/part_000).                       *)
(*                                                                         *)
(* Every exported function is one action.  The functions only talk to the  *)
(* host (SDK calls, subprocess, environment), so the state is the record   *)
(* of the last invocation: which function ran, in which host environment,  *)
(* with which parameters, what the host services answered, and what the    *)
(* function did to the host (calls made, setFailed messages, warnings,     *)
(* info lines) and how it completed.                                       *)
(***************************************************************************)
EXTENDS Integers, Sequences, FiniteSets, TLC

VARIABLES op, variant, host, call, oracle, inputs, eff

vars == <<op, variant, host, call, oracle, inputs, eff>>

(***************************************************************************)
(* Bounds                                                                  *)
(***************************************************************************)
\* longest raw 'args' input, in atoms (an atom is an option word, "," or " ")
MaxRawLen == 3
\* the subprocess exit codes are 0..MaxExit
MaxExit == 2

Variants == {"github", "azure"}
ExitCodes == 0..MaxExit

(***************************************************************************)
(* JavaScript values                                                       *)
(***************************************************************************)
\* a value that may be undefined (payload fields, environment variables)
Undefined == [def |-> FALSE, val |-> ""]
Some(s) == [def |-> TRUE, val |-> s]

\* an environment variable holding a string of characters
UnsetEnv == [def |-> FALSE, val |-> <<>>]
SetEnv(chars) == [def |-> TRUE, val |-> chars]

(***************************************************************************)
(* String.prototype.split(',') and String.prototype.trim(), on a string    *)
(* given as a sequence of atoms                                            *)
(***************************************************************************)
RawAtoms == {"--commit", "-x", ",", " "}

RECURSIVE SeqsUpTo(_, _)
SeqsUpTo(S, n) ==
  IF n = 0 THEN {<<>>}
  ELSE LET shorter == SeqsUpTo(S, n - 1)
       IN shorter \cup {Append(s, a) : s \in {t \in shorter : Len(t) = n - 1}, a \in S}

RawStrings == SeqsUpTo(RawAtoms, MaxRawLen)

\* split(','): always at least one segment; "" splits to [""]
RECURSIVE SplitComma(_)
SplitComma(raw) ==
  IF \A i \in 1..Len(raw) : raw[i] # "," THEN <<raw>>
  ELSE LET k == CHOOSE i \in 1..Len(raw) :
                  raw[i] = "," /\ \A j \in 1..(i - 1) : raw[j] # ","
       IN <<SubSeq(raw, 1, k - 1)>> \o SplitComma(SubSeq(raw, k + 1, Len(raw)))

RECURSIVE TrimLeft(_)
TrimLeft(s) == IF s # <<>> /\ Head(s) = " " THEN TrimLeft(Tail(s)) ELSE s

RECURSIVE TrimRight(_)
TrimRight(s) ==
  IF s # <<>> /\ s[Len(s)] = " " THEN TrimRight(SubSeq(s, 1, Len(s) - 1)) ELSE s

Trim(s) == TrimLeft(TrimRight(s))

\* the string a sequence of atoms spells
RECURSIVE Spell(_)
Spell(s) == IF s = <<>> THEN "" ELSE Head(s) \o Spell(Tail(s))

\* raw.split(',').map(arg => arg.trim())
SplitArgs(raw) ==
  LET parts == SplitComma(raw)
  IN [i \in 1..Len(parts) |-> Spell(Trim(parts[i]))]

(***************************************************************************)
(* Effects of an invocation on the host                                    *)
(***************************************************************************)
Call(fn, argv) == [fn |-> fn, argv |-> argv]

Returned == [kind |-> "return", code |-> 0, flag |-> FALSE]
ReturnCode(n) == [kind |-> "return", code |-> n, flag |-> FALSE]
ReturnFlag(b) == [kind |-> "return", code |-> 0, flag |-> b]
Thrown == [kind |-> "throw", code |-> 0, flag |-> FALSE]

Eff(calls, failed, warnings, infos, out) ==
  [calls |-> calls, failed |-> failed, warnings |-> warnings,
   infos |-> infos, out |-> out]

NoEff == Eff(<<>>, <<>>, <<>>, <<>>, Returned)

\* e1 then e2: e2 runs only when e1 returned
Then(e1, e2) ==
  IF e1.out.kind = "throw" THEN e1
  ELSE Eff(e1.calls \o e2.calls, e1.failed \o e2.failed,
           e1.warnings \o e2.warnings, e1.infos \o e2.infos, e2.out)

\* a host call that either returns or raises
HostCall(fn, argv, ok) ==
  Eff(<<Call(fn, argv)>>, <<>>, <<>>, <<>>, IF ok THEN Returned ELSE Thrown)

Info(msg) == Eff(<<>>, <<>>, <<>>, <<msg>>, Returned)
Warning(msg) == Eff(<<>>, <<>>, <<msg>>, <<>>, Returned)
SetFailed(msg) == Eff(<<>>, <<msg>>, <<>>, <<>>, Returned)

(***************************************************************************)
(* common/qodana (not among the sources): modelled from the specification  *)
(***************************************************************************)
EXECUTABLE == "qodana"

\* process.arch / process.platform to the names used in the download table
getProcessArchName(h) == IF h.processArch = "x64" THEN "x86_64" ELSE "arm64"
getProcessPlatformName(h) ==
  IF h.processPlatform = "win32" THEN "windows" ELSE h.processPlatform

getQodanaUrl(arch, platform) == "url:" \o platform \o "_" \o arch
\* the registered checksum of the package for (arch, platform)
getQodanaSha256(arch, platform) == "sha:" \o platform \o "_" \o arch
\* the content hash of a downloaded file, a file being named by its content
sha256sum(file) == "sha:" \o file
getQodanaSha256MismatchMessage(expected, actual) ==
  "checksum mismatch: expected " \o expected \o ", actual " \o actual

\* "pull": prepare the engine without running analysis
getQodanaPullArgs(args) == <<"pull">>
\* "scan": results and cache directory, then the pass-through arguments
getQodanaScanArgs(args, resultsDir, cacheDir) ==
  <<"scan", "--cache-dir", cacheDir, "--results-dir", resultsDir>> \o args

(***************************************************************************)
(* getInputs                                                               *)
(***************************************************************************)
\* JavaScript's  a || b  on strings: the empty string is falsy
OrElse(a, b) == IF a = "" THEN b ELSE a

NoInputs ==
  [args |-> <<>>, resultsDir |-> "", cacheDir |-> "", primaryCacheKey |-> "",
   additionalCacheKey |-> "", cacheDefaultBranchOnly |-> FALSE,
   uploadResult |-> FALSE, artifactName |-> "", useCaches |-> FALSE,
   useAnnotations |-> FALSE, prMode |-> FALSE]

getInputsGitHub(h) ==
  [args |-> SplitArgs(h.argsRaw),
   resultsDir |-> h.resultsDir,
   cacheDir |-> h.cacheDir,
   primaryCacheKey |-> h.primaryCacheKey,
   additionalCacheKey |-> OrElse(h.additionalCacheKey, h.additionalCacheHash),
   cacheDefaultBranchOnly |-> h.cacheDefaultBranchOnly,
   uploadResult |-> h.uploadResult,
   artifactName |-> h.artifactName,
   useCaches |-> h.useCaches,
   useAnnotations |-> h.useAnnotations,
   prMode |-> h.prMode]

getInputsAzure(h) ==
  LET home == h.agentTemp \o "/qodana"
  IN [args |-> SplitArgs(h.argsRaw),
      resultsDir |-> OrElse(h.resultsDir, home \o "/results"),
      cacheDir |-> OrElse(h.cacheDir, home \o "/cache"),
      uploadResult |-> (h.uploadResult \/ TRUE),
      artifactName |-> OrElse(h.artifactName, "qodana-report"),
      additionalCacheKey |-> "",
      primaryCacheKey |-> "",
      useAnnotations |-> FALSE,
      useCaches |-> FALSE,
      cacheDefaultBranchOnly |-> FALSE,
      prMode |-> FALSE]

getInputs(v, h) == IF v = "github" THEN getInputsGitHub(h) ELSE getInputsAzure(h)

(***************************************************************************)
(* qodana: the process runner                                              *)
(***************************************************************************)
\* exec.getExecOutput / tl.exec: with ignoreReturnCode unset a nonzero exit
\* rejects the promise; with it set the exit code is the result
Exec(argv, ignoreReturnCode, exit) ==
  Eff(<<Call("exec", <<EXECUTABLE>> \o argv)>>, <<>>, <<>>, <<>>,
      IF ~ignoreReturnCode /\ exit # 0 THEN Thrown ELSE ReturnCode(exit))

ArgsEmptyNot1(args) == Len(args) <= 1
ArgsEmpty(args) == Len(args) = 0

IsPullRequestAny(prMode, pr) == pr # Undefined
IsPullRequest(prMode, pr) == prMode /\ pr # Undefined

IgnoreReturnCodeOff == FALSE
IgnoreReturnCode == TRUE

\* the argument vector the GitHub runner executes
qodanaArgsGitHub(prMode, args, h) ==
  IF ArgsEmpty(args)
  THEN LET in == getInputsGitHub(h)
           scan == getQodanaScanArgs(in.args, in.resultsDir, in.cacheDir)
       IN IF IsPullRequest(prMode, h.pr)
          THEN scan \o <<"--commit", "CI" \o h.pr.val>>
          ELSE scan
  ELSE args

qodanaGitHub(prMode, args, h, exit) ==
  Exec(qodanaArgsGitHub(prMode, args, h), IgnoreReturnCode, exit)

qodanaAzure(args, h, exit) ==
  LET in == getInputsAzure(h)
      argv == IF Len(args) = 0
              THEN getQodanaScanArgs(in.args, in.resultsDir, in.cacheDir)
              ELSE args
  IN Exec(argv, TRUE, exit)

\* the Inputs record qodana() builds: none when the arguments are explicit
qodanaInputs(v, args, h) ==
  IF v = "github"
  THEN (IF ArgsEmpty(args) THEN getInputsGitHub(h) ELSE NoInputs)
  ELSE (IF Len(args) = 0 THEN getInputsAzure(h) ELSE NoInputs)

qodana(v, prMode, args, h, exit) ==
  IF v = "github" THEN qodanaGitHub(prMode, args, h, exit)
  ELSE qodanaAzure(args, h, exit)

(***************************************************************************)
(* prepareAgent: download, verify, extract, install, pull                  *)
(***************************************************************************)
PullFailedAbove1(exitCode) == exitCode > 1
PullFailed(exitCode) == exitCode # 0

\* download, checksum, extract and install, common to both variants up to
\* the names of the host functions
Acquire(h, o, addPath) ==
  LET arch == getProcessArchName(h)
      platform == getProcessPlatformName(h)
      expectedChecksum == getQodanaSha256(arch, platform)
      actualChecksum == sha256sum(o.file)
      download == HostCall("downloadTool", <<getQodanaUrl(arch, platform)>>,
                           o.downloadOk)
      verify == IF expectedChecksum # actualChecksum
                THEN SetFailed(
                       getQodanaSha256MismatchMessage(expectedChecksum, actualChecksum))
                ELSE NoEff
      extract == HostCall(IF h.processPlatform = "win32" THEN "extractZip"
                          ELSE "extractTar", <<o.file>>, o.extractOk)
      install == Then(HostCall("cacheDir", <<EXECUTABLE>>, TRUE),
                      HostCall(addPath, <<EXECUTABLE>>, TRUE))
  IN Then(download, Then(verify, Then(extract, install)))

prepareAgentGitHub(args, h, o) ==
  LET pull == qodanaGitHub(FALSE, getQodanaPullArgs(args), h, o.exit)
      check == IF pull.out.kind = "return" /\ PullFailed(pull.out.code)
               THEN SetFailed("qodana pull failed with exit code")
               ELSE NoEff
  IN Then(Acquire(h, o, "addPath"), Then(pull, check))

prepareAgentAzure(args, h, o) ==
  LET pull == qodanaAzure(getQodanaPullArgs(args), h, o.exit)
      check == IF pull.out.kind = "return" /\ pull.out.code # 0
               THEN SetFailed("Unable to run 'qodana pull'")
               ELSE NoEff
  IN Then(Acquire(h, o, "prependPath"), Then(pull, check))

prepareAgent(v, args, h, o) ==
  IF v = "github" THEN prepareAgentGitHub(args, h, o)
  ELSE prepareAgentAzure(args, h, o)

(***************************************************************************)
(* try { ... } catch (error) { warning(...) }                              *)
(***************************************************************************)
CatchRethrow(e, msg) ==
  IF e.out.kind = "throw" THEN [e EXCEPT !.warnings = @ \o <<msg>>] ELSE e
Catch(e, msg) ==
  IF e.out.kind = "throw"
  THEN [e EXCEPT !.warnings = @ \o <<msg>>, !.out = Returned]
  ELSE e

(***************************************************************************)
(* uploadReport                                                            *)
(***************************************************************************)
\* o.fail is the number of the host call that raises (0: none does).  The
\* paths built with path.dirname and path.join are left out of the calls'
\* arguments.
uploadReportGitHubBody(resultsDir, artifactName, o) ==
  Catch(Then(Info("Uploading report..."),
        Then(HostCall("glob.create", <<resultsDir \o "/*">>, o.fail # 1),
        Then(HostCall("glob", <<>>, o.fail # 2),
             HostCall("uploadArtifact", <<artifactName>>, o.fail # 3)))),
        "Failed to upload report")

uploadReportGitHubAlways(resultsDir, artifactName, execute, o) ==
  uploadReportGitHubBody(resultsDir, artifactName, o)
uploadReportGitHub(resultsDir, artifactName, execute, o) ==
  IF ~execute THEN NoEff
  ELSE uploadReportGitHubBody(resultsDir, artifactName, o)

uploadReportAzure(resultsDir, artifactName, execute, o) ==
  IF ~execute THEN NoEff
  ELSE Catch(
        Then(HostCall("createArchive", <<resultsDir, "zip">>, o.fail # 1),
        Then(HostCall("uploadArtifact", <<"Qodana", artifactName>>, o.fail # 2),
        Then(HostCall("cp", <<resultsDir \o "/qodana.sarif.json">>, o.fail # 3),
             HostCall("uploadArtifact", <<"CodeAnalysisLogs", "CodeAnalysisLogs">>,
                      o.fail # 4)))),
        "Failed to upload report")

uploadReport(v, resultsDir, artifactName, execute, o) ==
  IF v = "github" THEN uploadReportGitHub(resultsDir, artifactName, execute, o)
  ELSE uploadReportAzure(resultsDir, artifactName, execute, o)

(***************************************************************************)
(* isServer: new URL(GITHUB_SERVER_URL || 'https://github.com')            *)
(***************************************************************************)
Schemes == {"https://", "http://"}
LowerCase == <<"g", "i", "t", "h", "u", "b", "c", "o", "m">>
UpperCase == <<"G", "I", "T", "H", "U", "B", "C", "O", "M">>

ToCase(c, from, to) ==
  IF \E i \in 1..Len(from) : from[i] = c
  THEN to[CHOOSE i \in 1..Len(from) : from[i] = c]
  ELSE c
toUpperCase(s) == [i \in 1..Len(s) |-> ToCase(s[i], LowerCase, UpperCase)]
toLowerCase(s) == [i \in 1..Len(s) |-> ToCase(s[i], UpperCase, LowerCase)]

GITHUB_COM == <<"G", "I", "T", "H", "U", "B", ".", "C", "O", "M">>
DefaultServerUrl ==
  <<"https://", "g", "i", "t", "h", "u", "b", ".", "c", "o", "m">>

\* the URL parser: a string without a scheme or a host is rejected (throws);
\* the host runs to the first "/" and is lower-cased
RECURSIVE UpToSlash(_)
UpToSlash(s) ==
  IF s = <<>> \/ Head(s) = "/" THEN <<>> ELSE <<Head(s)>> \o UpToSlash(Tail(s))

NewURL(s) ==
  IF s = <<>> \/ Head(s) \notin Schemes \/ UpToSlash(Tail(s)) = <<>>
  THEN [ok |-> FALSE, hostname |-> <<>>]
  ELSE [ok |-> TRUE, hostname |-> toLowerCase(UpToSlash(Tail(s)))]

\* process.env[name] || fallback: unset and empty both fall back
EnvOr(e, fallback) == IF e.def /\ e.val # <<>> THEN e.val ELSE fallback

isServerSame(h) ==
  LET ghUrl == NewURL(EnvOr(h.serverUrl, DefaultServerUrl))
  IN Eff(<<Call("env", <<"GITHUB_SERVER_URL">>)>>, <<>>, <<>>, <<>>,
         IF ghUrl.ok THEN ReturnFlag(toUpperCase(ghUrl.hostname) = GITHUB_COM)
         ELSE Thrown)
isServer(h) ==
  LET ghUrl == NewURL(EnvOr(h.serverUrl, DefaultServerUrl))
  IN Eff(<<Call("env", <<"GITHUB_SERVER_URL">>)>>, <<>>, <<>>, <<>>,
         IF ghUrl.ok THEN ReturnFlag(toUpperCase(ghUrl.hostname) # GITHUB_COM)
         ELSE Thrown)

GhesWarning == "Cache is not supported on GHES"

(***************************************************************************)
(* uploadCaches, restoreCaches                                             *)
(***************************************************************************)
\* o.cache is the cache service's answer: "hit" (saved / restored), "miss"
\* (restore found no key) or "throw"
uploadCachesBody(cacheDir, primaryKey, h, o) ==
  LET server == isServer(h)
      save == Catch(Then(HostCall("saveCache", <<cacheDir, primaryKey>>,
                                  o.cache # "throw"),
                         Info("Cache saved with key " \o primaryKey)),
                    "Failed to save cache with key " \o primaryKey)
  IN Catch(Then(server, IF server.out.flag THEN Warning(GhesWarning) ELSE save),
           "Failed to upload caches")

uploadCaches(cacheDir, primaryKey, execute, h, o) ==
  IF ~execute THEN NoEff ELSE uploadCachesBody(cacheDir, primaryKey, h, o)

restoreCaches(cacheDir, primaryKey, additionalCacheKey, execute, h, o) ==
  IF ~execute THEN NoEff
  ELSE LET server == isServer(h)
           restore ==
             Catch(Then(HostCall("restoreCache",
                                 <<cacheDir, primaryKey, additionalCacheKey>>,
                                 o.cache # "throw"),
                        IF o.cache = "miss"
                        THEN Info("Cache not found for input keys: " \o primaryKey
                                  \o ", " \o additionalCacheKey)
                        ELSE Info("Cache restored from key")),
                   "Failed to restore cache with key " \o primaryKey)
       IN Catch(Then(server,
                     IF server.out.flag THEN Warning(GhesWarning) ELSE restore),
                "Failed to download caches")

(***************************************************************************)
(* isNeedToUploadCache                                                     *)
(***************************************************************************)
isNeedToUploadCacheAnyBranch(useCaches, cacheDefaultBranchOnly, h) ==
  Then(IF ~useCaches /\ cacheDefaultBranchOnly
       THEN Warning("Turn on use-cache option to use cache-default-branch-only")
       ELSE NoEff,
       Eff(<<>>, <<>>, <<>>, <<>>, ReturnFlag(useCaches)))
isNeedToUploadCache(useCaches, cacheDefaultBranchOnly, h) ==
  LET currentBranch == h.ref
      defaultBranch == h.defaultBranch
  IN Then(IF ~useCaches /\ cacheDefaultBranchOnly
          THEN Warning("Turn on use-cache option to use cache-default-branch-only")
          ELSE NoEff,
          Eff(<<>>, <<>>, <<>>, <<>>,
              ReturnFlag(IF useCaches /\ cacheDefaultBranchOnly
                         THEN currentBranch = defaultBranch
                         ELSE useCaches)))

(***************************************************************************)
(* The host environments, parameters and service answers explored          *)
(***************************************************************************)
DefaultHost ==
  [argsRaw |-> <<>>, resultsDir |-> "/res", cacheDir |-> "/cache",
   primaryCacheKey |-> "key", additionalCacheKey |-> "",
   additionalCacheHash |-> "", cacheDefaultBranchOnly |-> FALSE,
   uploadResult |-> FALSE, artifactName |-> "qodana-report",
   useCaches |-> TRUE, useAnnotations |-> TRUE, prMode |-> FALSE,
   agentTemp |-> "/agent", processArch |-> "x64", processPlatform |-> "linux",
   serverUrl |-> UnsetEnv, pr |-> Undefined, ref |-> Undefined,
   defaultBranch |-> Undefined]

DefaultCall ==
  [prMode |-> FALSE, args |-> <<>>, execute |-> FALSE, useCaches |-> FALSE,
   cacheDefaultBranchOnly |-> FALSE]

DefaultOracle ==
  [exit |-> 0, file |-> "", downloadOk |-> TRUE, extractOk |-> TRUE,
   fail |-> 0, cache |-> "hit"]

Dirs == {"", "/res"}
ExplicitArgs ==
  {<<>>, <<"pull">>, <<"scan", "--commit">>, <<"scan", "-x", "--results-dir">>}
UserArgs == {<<"">>, <<"-x">>}
PullRequests == {Undefined, Some("abc"), Some("def")}
Refs == {Undefined, Some("main"), Some("dev"), Some("refs/heads/main")}
DefaultBranches == {Undefined, Some("main")}
Archs == {"x64", "arm64"}
Platforms == {"linux", "darwin", "win32"}
\* a downloaded file is the genuine package of some platform, or something else
Files == {"linux_x86_64", "linux_arm64", "darwin_x86_64", "darwin_arm64",
          "windows_x86_64", "windows_arm64", "tampered"}
CacheAnswers == {"hit", "miss", "throw"}
ServerUrls ==
  {UnsetEnv, SetEnv(<<>>),
   SetEnv(<<"https://", "g", "i", "t", "h", "u", "b", ".", "c", "o", "m">>),
   SetEnv(<<"https://", "G", "i", "t", "H", "u", "b", ".", "c", "o", "m", "/">>),
   SetEnv(<<"http://", "g", "i", "t", ".", "h", "u", "b">>),
   SetEnv(<<"https://", "g", "i", "t", "h", "u", "b", ".", "c", "o">>),
   SetEnv(<<"https://", "G", "H", "E", ".", "c", "o", "m", "/", "x">>),
   SetEnv(<<"g", "i", "t", "h", "u", "b", ".", "c", "o", "m">>)}

(***************************************************************************)
(* State machine: one action per exported function, called one at a time   *)
(***************************************************************************)
Init ==
  /\ op = "start"
  /\ variant = "github"
  /\ host = DefaultHost
  /\ call = DefaultCall
  /\ oracle = DefaultOracle
  /\ inputs = NoInputs
  /\ eff = NoEff

GetInputs ==
  /\ op = "start"
  /\ \E v \in Variants, raw \in RawStrings, rd \in Dirs, cd \in {"", "/cache"},
     ur \in BOOLEAN, uc \in BOOLEAN, hash \in {"", "h1"} :
    LET h == [DefaultHost EXCEPT !.argsRaw = raw, !.resultsDir = rd,
                                 !.cacheDir = cd, !.uploadResult = ur,
                                 !.useCaches = uc, !.additionalCacheHash = hash]
    IN /\ op' = "getInputs"
       /\ variant' = v
       /\ host' = h
       /\ call' = DefaultCall
       /\ oracle' = DefaultOracle
       /\ inputs' = getInputs(v, h)
       /\ eff' = NoEff

Qodana ==
  /\ op = "start"
  /\ \E v \in Variants, raw \in RawStrings, rd \in Dirs, pm \in BOOLEAN,
     args \in ExplicitArgs, pr \in PullRequests, exit \in ExitCodes :
    LET h == [DefaultHost EXCEPT !.argsRaw = raw, !.resultsDir = rd, !.pr = pr]
    IN /\ v = "azure" => ~pm /\ pr = Undefined
       /\ op' = "qodana"
       /\ variant' = v
       /\ host' = h
       /\ call' = [DefaultCall EXCEPT !.prMode = pm, !.args = args]
       /\ oracle' = [DefaultOracle EXCEPT !.exit = exit]
       /\ inputs' = qodanaInputs(v, args, h)
       /\ eff' = qodana(v, pm, args, h, exit)

PrepareAgent ==
  /\ op = "start"
  /\ \E v \in Variants, args \in UserArgs, arch \in Archs, plat \in Platforms,
     file \in Files, dl \in BOOLEAN, ex \in BOOLEAN, exit \in ExitCodes :
    LET h == [DefaultHost EXCEPT !.processArch = arch, !.processPlatform = plat]
        o == [DefaultOracle EXCEPT !.file = file, !.downloadOk = dl,
                                   !.extractOk = ex, !.exit = exit]
    IN /\ op' = "prepareAgent"
       /\ variant' = v
       /\ host' = h
       /\ call' = [DefaultCall EXCEPT !.args = args]
       /\ oracle' = o
       /\ inputs' = NoInputs
       /\ eff' = prepareAgent(v, args, h, o)

UploadReport ==
  /\ op = "start"
  /\ \E v \in Variants, execute \in BOOLEAN, fail \in 0..4, rd \in Dirs :
    LET o == [DefaultOracle EXCEPT !.fail = fail]
    IN /\ op' = "uploadReport"
       /\ variant' = v
       /\ host' = DefaultHost
       /\ call' = [DefaultCall EXCEPT !.execute = execute]
       /\ oracle' = o
       /\ inputs' = NoInputs
       /\ eff' = uploadReport(v, rd, "qodana-report", execute, o)

UploadCaches ==
  /\ op = "start"
  /\ \E execute \in BOOLEAN, url \in ServerUrls, ans \in CacheAnswers :
    LET h == [DefaultHost EXCEPT !.serverUrl = url]
        o == [DefaultOracle EXCEPT !.cache = ans]
    IN /\ op' = "uploadCaches"
       /\ variant' = "github"
       /\ host' = h
       /\ call' = [DefaultCall EXCEPT !.execute = execute]
       /\ oracle' = o
       /\ inputs' = NoInputs
       /\ eff' = uploadCaches("/cache", "key", execute, h, o)

RestoreCaches ==
  /\ op = "start"
  /\ \E execute \in BOOLEAN, url \in ServerUrls, ans \in CacheAnswers,
     uc \in BOOLEAN, only \in BOOLEAN, ref \in Refs, db \in DefaultBranches :
    LET h == [DefaultHost EXCEPT !.serverUrl = url, !.useCaches = uc,
                                 !.cacheDefaultBranchOnly = only,
                                 !.ref = ref, !.defaultBranch = db]
        o == [DefaultOracle EXCEPT !.cache = ans]
    IN /\ op' = "restoreCaches"
       /\ variant' = "github"
       /\ host' = h
       /\ call' = [DefaultCall EXCEPT !.execute = execute]
       /\ oracle' = o
       /\ inputs' = NoInputs
       /\ eff' = restoreCaches("/cache", "key", "key2", execute, h, o)

IsNeedToUploadCache ==
  /\ op = "start"
  /\ \E uc \in BOOLEAN, only \in BOOLEAN, ref \in Refs, db \in DefaultBranches :
    LET h == [DefaultHost EXCEPT !.ref = ref, !.defaultBranch = db]
    IN /\ op' = "isNeedToUploadCache"
       /\ variant' = "github"
       /\ host' = h
       /\ call' = [DefaultCall EXCEPT !.useCaches = uc,
                                      !.cacheDefaultBranchOnly = only]
       /\ oracle' = DefaultOracle
       /\ inputs' = NoInputs
       /\ eff' = isNeedToUploadCache(uc, only, h)

\* the invocation is over: control is back with the caller, which awaits each
\* stage before it starts the next
Return ==
  /\ op # "start"
  /\ op' = "start"
  /\ variant' = "github"
  /\ host' = DefaultHost
  /\ call' = DefaultCall
  /\ oracle' = DefaultOracle
  /\ inputs' = NoInputs
  /\ eff' = NoEff

Next ==
  \/ Return
  \/ GetInputs
  \/ Qodana
  \/ PrepareAgent
  \/ UploadReport
  \/ UploadCaches
  \/ RestoreCaches
  \/ IsNeedToUploadCache

Spec == Init /\ [][Next]_vars

(***************************************************************************)
(* Properties                                                              *)
(***************************************************************************)
HasCall(fn) == \E i \in 1..Len(eff.calls) : eff.calls[i].fn = fn
Count(seq, x) == Cardinality({i \in 1..Len(seq) : seq[i] = x})
Contains(seq, x) == \E i \in 1..Len(seq) : seq[i] = x

\* the downloaded file's hash is not the one registered for this host
ChecksumMismatch ==
  sha256sum(oracle.file) #
    getQodanaSha256(getProcessArchName(host), getProcessPlatformName(host))

InstallCalls == {"extractZip", "extractTar", "cacheDir", "addPath", "prependPath"}

\* C1: in prepareAgent, a checksum mismatch marks the run failed and nothing
\* follows it: no extraction, no installation, no invocation of the tool.
C1_MismatchAborts ==
  (op = "prepareAgent" /\ oracle.downloadOk /\ ChecksumMismatch) =>
    /\ eff.failed # <<>>
    /\ \A i \in 1..Len(eff.calls) : eff.calls[i].fn \notin InstallCalls \cup {"exec"}

PullFailMessages ==
  {"qodana pull failed with exit code", "Unable to run 'qodana pull'"}
MarkedFailedByPull == \E i \in 1..Len(eff.failed) : eff.failed[i] \in PullFailMessages

\* C2: in prepareAgent, the pull stage marks the run failed exactly when the
\* exit code of 'pull' is nonzero, and after a nonzero exit nothing more is
\* done: the pull is the last host call, the mark the last effect, no scan.
C2_PullFatal ==
  op = "prepareAgent" =>
    /\ MarkedFailedByPull <=> (HasCall("exec") /\ oracle.exit # 0)
    /\ (HasCall("exec") /\ oracle.exit # 0) =>
         /\ eff.calls[Len(eff.calls)] = Call("exec", <<EXECUTABLE, "pull">>)
         /\ Count(eff.calls, Call("exec", <<EXECUTABLE, "pull">>)) = 1
         /\ \A i \in 1..Len(eff.calls) :
              eff.calls[i].fn = "exec" => ~Contains(eff.calls[i].argv, "scan")
         /\ eff.failed[Len(eff.failed)] \in PullFailMessages
         /\ eff.out.kind = "return"

C2_Witness ==
  /\ op = "prepareAgent"
  /\ variant = "azure"
  /\ oracle.exit = 1
  /\ HasCall("exec")
  /\ MarkedFailedByPull

\* C3: qodana() completes normally for every exit code, returns exactly that
\* code, and does not itself mark the run failed.
C3_RunnerReturnsExitCode ==
  op = "qodana" =>
    /\ eff.out.kind = "return"
    /\ eff.out.code = oracle.exit
    /\ eff.failed = <<>>
    /\ Len(eff.calls) = 1 /\ eff.calls[1].fn = "exec"

C3_Witness ==
  /\ op = "qodana"
  /\ oracle.exit # 0
  /\ eff.out = ReturnCode(oracle.exit)

\* C4: a non-empty explicit argument vector is executed unchanged, whatever
\* the configured arguments, directories, PR mode and payload are; only an
\* empty vector is replaced by the scan arguments derived from the inputs.
C4_ExplicitArgsWin ==
  op = "qodana" =>
    /\ call.args # <<>> =>
         /\ eff.calls = <<Call("exec", <<EXECUTABLE>> \o call.args)>>
         /\ inputs = NoInputs
    /\ call.args = <<>> =>
         /\ inputs = getInputs(variant, host)
         /\ SubSeq(eff.calls[1].argv, 2, 6) =
              <<"scan", "--cache-dir", inputs.cacheDir,
                "--results-dir", inputs.resultsDir>>

C4_Witness ==
  /\ op = "qodana"
  /\ variant = "github"
  /\ call.args = <<"pull">>
  /\ call.prMode
  /\ host.pr # Undefined
  /\ host.argsRaw # <<>>
  /\ eff.calls = <<Call("exec", <<EXECUTABLE, "pull">>)>>

\* the argument vector the runner executed, without the executable
Argv == Tail(eff.calls[1].argv)
Derives == op = "qodana" /\ variant = "github" /\ call.args = <<>>
CommitLast(argv) ==
  /\ Len(argv) >= 2
  /\ argv[Len(argv) - 1] = "--commit"
  /\ argv[Len(argv)] = "CI" \o host.pr.val

BestEffortOps == {"uploadReport", "uploadCaches", "restoreCaches"}
\* a host call of the post-step raised
HostRaised ==
  \/ /\ op = "uploadReport"
     /\ call.execute
     /\ oracle.fail \in 1..(IF variant = "github" THEN 3 ELSE 4)
  \/ /\ op \in {"uploadCaches", "restoreCaches"}
     /\ call.execute
     /\ \/ ~NewURL(EnvOr(host.serverUrl, DefaultServerUrl)).ok
        \/ (HasCall("saveCache") \/ HasCall("restoreCache")) /\ oracle.cache = "throw"

\* C6: the best-effort post-steps complete normally whatever the host
\* services answer, never mark the run failed, and turn a raised error into
\* exactly one warning.
C6_BestEffortNeverFails ==
  op \in BestEffortOps =>
    /\ eff.out.kind = "return"
    /\ eff.failed = <<>>
    /\ HostRaised => Len(eff.warnings) = 1

C6_Witness ==
  /\ op = "uploadReport"
  /\ variant = "azure"
  /\ oracle.fail = 3
  /\ HasCall("cp")
  /\ ~HasCall("glob")
  /\ Len(eff.warnings) = 1
  /\ eff.out.kind = "return"

\* C7: with execute false the post-steps do nothing at all: no host call (the
\* server URL is not read either), no info line, no warning.
C7_NoExecuteNoEffect ==
  (op \in BestEffortOps /\ ~call.execute) => eff = NoEff

C7_Witness ==
  /\ op = "uploadReport"
  /\ variant = "github"
  /\ ~call.execute
  /\ oracle.fail = 0
  /\ eff = NoEff

\* the server URL's hostname, compared without regard to case, is not
\* github.com; an unset or empty URL counts as github.com
HostIsServer ==
  LET url == NewURL(EnvOr(host.serverUrl, DefaultServerUrl))
  IN url.ok /\ toUpperCase(url.hostname) # GITHUB_COM

\* C8: on a host without the cache service, uploadCaches and restoreCaches
\* (execute true) give exactly one warning and return without calling the
\* cache's save or restore.
C8_NoCacheOnServer ==
  (op \in {"uploadCaches", "restoreCaches"} /\ call.execute /\ HostIsServer) =>
    /\ eff.warnings = <<GhesWarning>>
    /\ ~HasCall("saveCache")
    /\ ~HasCall("restoreCache")
    /\ eff.out.kind = "return"
    /\ eff.failed = <<>>

C8_Witness ==
  /\ op = "uploadCaches"
  /\ call.execute
  /\ HostIsServer
  /\ oracle.cache = "hit"
  /\ eff.warnings = <<GhesWarning>>

\* C9: isNeedToUploadCache returns true only if useCaches holds and, under
\* cacheDefaultBranchOnly, the payload's ref equals (===) the repository's
\* default branch; with caching off and the restriction on it warns and
\* returns false.  restoreCaches restores whatever the policy says.
C9_DefaultBranchPolicy ==
  /\ op = "isNeedToUploadCache" =>
       /\ eff.out.kind = "return"
       /\ eff.failed = <<>>
       /\ eff.out.flag =>
            /\ call.useCaches
            /\ call.cacheDefaultBranchOnly => host.ref = host.defaultBranch
       /\ (~call.useCaches /\ call.cacheDefaultBranchOnly) =>
            Len(eff.warnings) = 1 /\ ~eff.out.flag
  /\ (op = "restoreCaches" /\ call.execute /\ ~HostIsServer
        /\ NewURL(EnvOr(host.serverUrl, DefaultServerUrl)).ok) =>
       HasCall("restoreCache")

C9_Witness ==
  /\ op = "isNeedToUploadCache"
  /\ call.useCaches
  /\ call.cacheDefaultBranchOnly
  /\ host.ref = Some("refs/heads/main")
  /\ host.defaultBranch = Some("main")
  /\ ~eff.out.flag

\* C10: the Inputs record carries the host's value of the upload-result flag,
\* in both variants.
C10_UploadResultCarried ==
  op = "getInputs" => inputs.uploadResult = host.uploadResult

====
